---- MODULE Spec2Model ----
(***************************************************************************)
(* Model of scrape.py: one run of main(), i.e. PageScraper.scrape()        *)
(* (fetch_url, status classification, resp.read(), lxml fromstring,        *)
(* doc.xpath, _get_element_text) followed by the exit_json of main().      *)
(*                                                                         *)
(* Python values are tagged records, so that None, a string, a list, a     *)
(* number and an HtmlElement stay distinguishable:                         *)
(*   [t |-> "None"], [t |-> "str", s |-> ..], [t |-> "list", l |-> ..],    *)
(*   [t |-> "float", n |-> ..], [t |-> "bool", b |-> ..],                  *)
(*   [t |-> "HtmlElement", e |-> ..]                                       *)
(* The keyword arguments of exit_json / fail_json are a record with a      *)
(* field "keys" naming the keys that are present in the emitted output.    *)
(***************************************************************************)
EXTENDS Integers, Sequences, FiniteSets, TLC

\* ---------------------------------------------------------------- bounds
\* largest number of elements in a fetched document
MaxNodes == 2
\* largest value of the whole-second elapsed time
MaxElapsed == 1

\* statuses fetch_url may report in info['status'] (-1: transport failure)
Statuses == {-1, 200, 201, 204, 206, 299, 301, 304, 404, 500}

\* an element of the parsed document: its own text, the text of its
\* descendants, and its href attribute
Elements == [text : {"", "a"}, child : {"", "b"}, href : {"/v1", "/v2"}]

RECURSIVE SeqsUpTo(_, _)
SeqsUpTo(S, n) ==
    IF n = 0 THEN {<<>>}
    ELSE LET shorter == SeqsUpTo(S, n - 1)
         IN  shorter \cup {Append(q, x) : q \in {r \in shorter : Len(r) = n - 1}, x \in S}

\* response bodies: the elements the body parses to (<<>>: an empty body)
Bodies == SeqsUpTo(Elements, MaxNodes)

\* XPath expressions, by what they select: a node-set of elements, a
\* node-set of attributes, or a scalar function of a node-set; "invalid"
\* is an expression lxml cannot parse
Queries ==
    [kind : {"elements", "attr", "string", "count", "boolean"}, sel : SUBSET (1 .. MaxNodes)]
        \cup {[kind |-> "invalid", sel |-> {}]}

\* ---------------------------------------------------------------- values
None == [t |-> "None"]
Str(s) == [t |-> "str", s |-> s]
List(l) == [t |-> "list", l |-> l]
Float(n) == [t |-> "float", n |-> n]
Bool(b) == [t |-> "bool", b |-> b]
HtmlElement(e) == [t |-> "HtmlElement", e |-> e]

VARIABLES
    check_mode,   \* module.check_mode
    xpath,        \* self.xpath
    _content,     \* self._content
    pc,           \* the statement the run is at
    method,       \* the method passed to fetch_url ("" before the call)
    requests,     \* number of fetch_url calls made
    status,       \* info['status']
    elapsed,      \* the local elapsed of _get_content
    body,         \* what resp.read() would return
    content,      \* the local content of scrape()
    doc,          \* the local doc of scrape()
    elem,         \* the local elem of scrape()
    result,       \* the local result of main()
    out,          \* outputs emitted by exit_json / fail_json, in order
    exc,          \* the uncaught exception that ended the run ("" if none)
    steps         \* the statements after the fetch that have executed

vars == <<check_mode, xpath, _content, pc, method, requests, status, elapsed,
          body, content, doc, elem, result, out, exc, steps>>

NoResult == [keys |-> {}, matched |-> FALSE, content |-> None, changed |-> FALSE]

\* ------------------------------------------------------- library behaviour
\* AnsibleModule.exit_json / fail_json print the output and call sys.exit:
\* the statement after the call is never reached
sys_exit_returns(fallthrough) == fallthrough

sys_exit(fallthrough) == "exited"

\* lxml.html.fromstring raises ParserError("Document is empty") on an empty body
fromstring_raises(b) == b = <<>>

\* HtmlElement.text_content(): the element's text and its descendants' text
text_content(e) == e.text \o e.child

RECURSIVE Pick(_, _, _)
\* the nodes of d selected by sel, from index i on, in document order
Pick(d, sel, i) ==
    IF i > Len(d) THEN <<>>
    ELSE IF i \in sel THEN <<d[i]>> \o Pick(d, sel, i + 1)
    ELSE Pick(d, sel, i + 1)

\* doc.xpath(expr): a node-set is always a list (also for zero or one node),
\* an attribute node-set a list of strings, a function result a scalar
xpath_eval(d, q) ==
    LET nodes == Pick(d, q.sel, 1)
    IN  CASE q.kind = "elements" -> List([i \in 1 .. Len(nodes) |-> HtmlElement(nodes[i])])
          [] q.kind = "attr"     -> List([i \in 1 .. Len(nodes) |-> Str(nodes[i].href)])
          [] q.kind = "string"   -> Str(IF nodes = <<>> THEN "" ELSE text_content(nodes[1]))
          [] q.kind = "count"    -> Float(Len(nodes))
          [] OTHER               -> Bool(nodes # <<>>)

\* ---------------------------------------------------------- PageScraper
\* the request method chosen from module.check_mode
MethodFor(cm) == IF cm THEN "HEAD" ELSE "GET"

\* the status test that lets _get_content return the body
IsOkStatus_2xx(s) == s \in 200 .. 299

IsOkStatus(s) == s = 200

\* keyword arguments of the three early exits of _get_content
Output(fn, keys, changed, status_code, el, matched, c) ==
    [fn |-> fn, keys |-> keys, changed |-> changed, status_code |-> status_code,
     elapsed |-> el, matched |-> matched, content |-> c]

NotModifiedKwargs(el) ==
    Output("exit_json", {"url", "changed", "msg", "elapsed"}, FALSE, 0, el, FALSE, None)

TransportFailureKwargs_status(s, el) ==
    Output("fail_json", {"url", "msg", "status_code", "elapsed"}, FALSE, s, el, FALSE, None)

TransportFailureKwargs(s, el) ==
    Output("fail_json", {"url", "msg", "elapsed"}, FALSE, 0, el, FALSE, None)

RequestFailedKwargs_noelapsed(s, el) ==
    Output("fail_json", {"url", "msg", "response", "status_code"}, FALSE, s, 0, FALSE, None)

RequestFailedKwargs(s, el) ==
    Output("fail_json", {"url", "msg", "response", "status_code", "elapsed"},
           FALSE, s, el, FALSE, None)

RECURSIVE _get_element_text_unwrap(_)
_get_element_text_unwrap(element) ==
    IF element.t = "HtmlElement" THEN Str(text_content(element.e))
    ELSE IF element.t = "list" THEN
        IF element.l = <<>> THEN None
        ELSE IF Len(element.l) = 1 THEN _get_element_text_unwrap(element.l[1])
        ELSE List([i \in 1 .. Len(element.l) |-> _get_element_text_unwrap(element.l[i])])
    ELSE element

RECURSIVE _get_element_text_noempty(_)
_get_element_text_noempty(element) ==
    IF element.t = "HtmlElement" THEN Str(text_content(element.e))
    ELSE IF element.t = "list" THEN
        List([i \in 1 .. Len(element.l) |-> _get_element_text_noempty(element.l[i])])
    ELSE element

RECURSIVE _get_element_text(_)
_get_element_text(element) ==
    IF element.t = "HtmlElement" THEN Str(text_content(element.e))
    ELSE IF element.t = "list" THEN
        IF element.l = <<>> THEN None
        ELSE List([i \in 1 .. Len(element.l) |-> _get_element_text(element.l[i])])
    ELSE element

\* Python truthiness of a value
Truthy(v) ==
    CASE v.t = "None"  -> FALSE
      [] v.t = "str"   -> v.s # ""
      [] v.t = "list"  -> v.l # <<>>
      [] v.t = "float" -> v.n # 0
      [] v.t = "bool"  -> v.b
      [] OTHER         -> TRUE

\* the dictionary scrape() returns
scrape_result_truthy(c, el) ==
    [keys |-> {"matched", "content"}, matched |-> Truthy(c), content |-> c, changed |-> FALSE]

scrape_result(c, el) ==
    [keys |-> {"matched", "content"}, matched |-> c.t # "None", content |-> c, changed |-> FALSE]

\* main(): result['changed'] = True only when result['matched']
set_changed_always(r) ==
    [r EXCEPT !.keys = @ \cup {"changed"}, !.changed = r.matched]

set_changed(r) ==
    IF r.matched THEN [r EXCEPT !.keys = @ \cup {"changed"}, !.changed = TRUE] ELSE r

\* ------------------------------------------------------------------ Init
Init ==
    /\ check_mode \in BOOLEAN
    /\ xpath \in Queries
    /\ _content = <<>>
    /\ pc = "fetch_url"
    /\ method = ""
    /\ requests = 0
    /\ status = 0
    /\ elapsed = 0
    /\ body = <<>>
    /\ content = None
    /\ doc = <<>>
    /\ elem = None
    /\ result = NoResult
    /\ out = <<>>
    /\ exc = ""
    /\ steps = {}

\* --------------------------------------------------------------- actions
\* _get_content, lines 82-92: self._content is empty, so the request is made
fetch_url ==
    /\ pc = "fetch_url"
    /\ _content = <<>>
    /\ method' = MethodFor(check_mode)
    /\ requests' = requests + 1
    /\ status' \in Statuses
    /\ elapsed' \in 0 .. MaxElapsed
    /\ body' \in IF method' = "HEAD" \/ status' = -1 THEN {<<>>} ELSE Bodies
    /\ pc' = "if_304"
    /\ UNCHANGED <<check_mode, xpath, _content, content, doc, elem, result, out, exc, steps>>

\* lines 94-95
if_304 ==
    /\ pc = "if_304"
    /\ IF status = 304
       THEN /\ out' = Append(out, NotModifiedKwargs(elapsed))
            /\ pc' = sys_exit("if_transport")
       ELSE /\ out' = out
            /\ pc' = "if_transport"
    /\ UNCHANGED <<check_mode, xpath, _content, method, requests, status, elapsed, body,
                   content, doc, elem, result, exc, steps>>

\* lines 97-98
if_transport ==
    /\ pc = "if_transport"
    /\ IF status = -1
       THEN /\ out' = Append(out, TransportFailureKwargs(status, elapsed))
            /\ pc' = sys_exit("if_not_ok")
       ELSE /\ out' = out
            /\ pc' = "if_not_ok"
    /\ UNCHANGED <<check_mode, xpath, _content, method, requests, status, elapsed, body,
                   content, doc, elem, result, exc, steps>>

\* lines 100-101
if_not_ok ==
    /\ pc = "if_not_ok"
    /\ IF ~IsOkStatus(status)
       THEN /\ out' = Append(out, RequestFailedKwargs(status, elapsed))
            /\ pc' = sys_exit("read")
       ELSE /\ out' = out
            /\ pc' = "read"
    /\ UNCHANGED <<check_mode, xpath, _content, method, requests, status, elapsed, body,
                   content, doc, elem, result, exc, steps>>

\* line 103 and line 118: content = resp.read()
read ==
    /\ pc = "read"
    /\ content' = body
    /\ steps' = steps \cup {"read"}
    /\ pc' = "fromstring"
    /\ UNCHANGED <<check_mode, xpath, _content, method, requests, status, elapsed, body,
                   doc, elem, result, out, exc>>

\* line 120
fromstring ==
    /\ pc = "fromstring"
    /\ steps' = steps \cup {"fromstring"}
    /\ IF fromstring_raises(content)
       THEN /\ exc' = "ParserError"
            /\ pc' = "raised"
            /\ doc' = doc
       ELSE /\ doc' = content
            /\ pc' = "xpath"
            /\ exc' = exc
    /\ UNCHANGED <<check_mode, xpath, _content, method, requests, status, elapsed, body,
                   content, elem, result, out>>

\* line 121
eval_xpath ==
    /\ pc = "xpath"
    /\ steps' = steps \cup {"xpath"}
    /\ IF xpath.kind = "invalid"
       THEN /\ exc' = "XPathEvalError"
            /\ pc' = "raised"
            /\ elem' = elem
       ELSE /\ elem' = xpath_eval(doc, xpath)
            /\ pc' = "get_element_text"
            /\ exc' = exc
    /\ UNCHANGED <<check_mode, xpath, _content, method, requests, status, elapsed, body,
                   content, doc, result, out>>

\* lines 122-124 and 138
scrape_return ==
    /\ pc = "get_element_text"
    /\ steps' = steps \cup {"get_element_text"}
    /\ content' = _get_element_text(elem)
    /\ result' = scrape_result(content', elapsed)
    /\ pc' = "main_exit"
    /\ UNCHANGED <<check_mode, xpath, _content, method, requests, status, elapsed, body,
                   doc, elem, out, exc>>

\* lines 139-142
main_exit ==
    /\ pc = "main_exit"
    /\ steps' = steps \cup {"main_exit"}
    /\ result' = set_changed(result)
    /\ out' = Append(out, Output("exit_json", result'.keys, result'.changed, 0, 0,
                                 result'.matched, result'.content))
    /\ pc' = sys_exit("returned")
    /\ UNCHANGED <<check_mode, xpath, _content, method, requests, status, elapsed, body,
                   content, doc, elem, exc>>

Next ==
    \/ fetch_url
    \/ if_304
    \/ if_transport
    \/ if_not_ok
    \/ read
    \/ fromstring
    \/ eval_xpath
    \/ scrape_return
    \/ main_exit

Spec == Init /\ [][Next]_vars

\* ------------------------------------------------------------ properties
\* the run has ended: by sys.exit or by an uncaught exception
Finished == pc \in {"exited", "raised"}

\* scrape() has returned its dictionary
HasResult == "matched" \in result.keys

\* the nodes the path expression selects in the parsed document
Selected == Pick(doc, xpath.sel, 1)

\* the statements of the Extractor
ExtractorSteps == {"read", "fromstring", "xpath", "get_element_text"}

\* output i is the result record of a successful run
IsResultRecord(o) == "matched" \in o.keys

\* output i is a failure carrying an HTTP status
IsHttpFailure(o) == o.fn = "fail_json" /\ "status_code" \in o.keys

\* the status has been classified by the three tests of _get_content
Classified == pc \in {"read", "fromstring", "xpath", "get_element_text", "main_exit",
                      "exited", "raised"}

\* C1 (as stated): every status in 200..299 proceeds to extraction, and an
\* HTTP failure is only emitted for a status outside 200..299 other than 304.
C1_Original ==
    /\ \A i \in 1 .. Len(out) :
         IsHttpFailure(out[i]) => status \notin 200 .. 299 /\ status # 304
    /\ (Classified /\ status \in 200 .. 299) => \A i \in 1 .. Len(out) : out[i].fn # "fail_json"

\* C1 (amended): the run proceeds to extraction exactly when the status is
\* 200; every status other than 200, 304 and -1 (201, 204, 206 included)
\* ends the run with an HTTP failure carrying that status.
C1_OnlyStatus200Proceeds ==
    /\ \A i \in 1 .. Len(out) :
         IsHttpFailure(out[i]) => status \notin {200, 304, -1} /\ out[i].status_code = status
    /\ Classified =>
         /\ (pc # "exited" \/ "read" \in steps) <=> status = 200
         /\ status \notin {200, 304, -1} =>
              Len(out) = 1 /\ IsHttpFailure(out[1]) /\ steps = {}

C1_Witness ==
    /\ status = 201 /\ pc = "exited" /\ Len(out) = 1
    /\ IsHttpFailure(out[1]) /\ out[1].status_code = 201

\* C2 (as stated): a path expression selecting exactly one element yields
\* that element's text content as a single string.
C2_Original ==
    (HasResult /\ xpath.kind = "elements" /\ Len(Selected) = 1) =>
        result.content.t = "str"

\* C2 (amended): a path expression selecting exactly one element yields a
\* one-element sequence holding that element's text content.
C2_SingleMatchIsOneElementList ==
    (HasResult /\ xpath.kind = "elements" /\ Len(Selected) = 1) =>
        /\ result.content.t = "list"
        /\ Len(result.content.l) = 1
        /\ result.content.l[1] = Str(text_content(Selected[1]))

C2_Witness ==
    /\ pc = "exited" /\ HasResult /\ xpath.kind = "elements" /\ Len(Selected) = 1
    /\ Len(doc) = 2 /\ text_content(Selected[1]) = "ab"
    /\ Len(out) = 1 /\ out[1].content = List(<<Str("ab")>>)

\* C3: the method is HEAD in check mode and GET otherwise, and in check
\* mode the body is never read, parsed or queried.
C3_DryRunNeverExtracts ==
    /\ requests > 0 => (method = "HEAD" <=> check_mode) /\ (method = "GET" <=> ~check_mode)
    /\ check_mode => steps \cap ExtractorSteps = {}

\* C4: after status 304 the run has ended with the single output
\* exit_json(changed=False) without content, and no Extractor statement and
\* no second output follows.
C4_NotModifiedEndsRun ==
    (status = 304 /\ pc # "if_304") =>
        /\ pc = "exited"
        /\ Len(out) = 1
        /\ out[1].fn = "exit_json"
        /\ "changed" \in out[1].keys /\ out[1].changed = FALSE
        /\ "content" \notin out[1].keys
        /\ steps = {}

C4_Witness ==
    /\ status = 304 /\ pc = "exited" /\ requests = 1
    /\ Len(out) = 1 /\ out[1].fn = "exit_json" /\ ~out[1].changed

\* C5: a failure output carries status_code exactly when the status is not
\* -1, the carried status_code is the status, every failure has a message,
\* and no Extractor statement runs in a failed run.
C5_StatusCodeOnlyForHttpFailure ==
    /\ \A i \in 1 .. Len(out) :
         out[i].fn = "fail_json" =>
            /\ "status_code" \in out[i].keys <=> status # -1
            /\ "status_code" \in out[i].keys => out[i].status_code = status
            /\ "msg" \in out[i].keys
            /\ steps = {}
    /\ (Classified /\ status \in {-1, 500}) =>
         pc = "exited" /\ Len(out) = 1 /\ out[1].fn = "fail_json"

C5_Witness ==
    /\ status = -1 /\ pc = "exited" /\ Len(out) = 1
    /\ out[1].fn = "fail_json" /\ "status_code" \notin out[1].keys /\ "msg" \in out[1].keys

\* C6: in every dictionary scrape() returns, and in the output made of it,
\* matched is true exactly when content is not None.
C6_MatchedIffContent ==
    /\ HasResult => (result.matched <=> result.content.t # "None")
    /\ \A i \in 1 .. Len(out) :
         IsResultRecord(out[i]) => (out[i].matched <=> out[i].content.t # "None")

C6_Witness ==
    /\ pc = "exited" /\ HasResult /\ xpath.kind = "string"
    /\ result.content = Str("") /\ result.matched

\* C7 (as stated): the output of a successful run reports changed, and
\* changed is true exactly when matched is.
C7_Original ==
    \A i \in 1 .. Len(out) :
        IsResultRecord(out[i]) =>
            "changed" \in out[i].keys /\ (out[i].changed <=> out[i].matched)

\* C7 (amended): the output of a successful run reports changed = true
\* exactly when matched is true; when matched is false the output has no
\* changed field.
C7_ChangedOnlyWhenMatched ==
    \A i \in 1 .. Len(out) :
        IsResultRecord(out[i]) =>
            /\ out[i].matched => "changed" \in out[i].keys /\ out[i].changed
            /\ ~out[i].matched => "changed" \notin out[i].keys

C7_Witness ==
    /\ pc = "exited" /\ Len(out) = 1 /\ IsResultRecord(out[1])
    /\ ~out[1].matched /\ "changed" \notin out[1].keys

\* C8: a node-set of zero nodes gives content None and matched false; a
\* non-empty node-set of elements gives the sequence of their text contents
\* in document order, also when every text content is empty, with matched
\* true.
C8_EmptyMatchIsNone ==
    (HasResult /\ xpath.kind \in {"elements", "attr"}) =>
        /\ Selected = <<>> => result.content = None /\ ~result.matched
        /\ (Selected # <<>> /\ xpath.kind = "elements") =>
             /\ result.content.t = "list"
             /\ Len(result.content.l) = Len(Selected)
             /\ \A i \in 1 .. Len(Selected) :
                  result.content.l[i] = Str(text_content(Selected[i]))
             /\ result.matched

C8_Witness ==
    /\ pc = "exited" /\ HasResult /\ xpath.kind = "elements" /\ Len(Selected) = 2
    /\ \A i \in 1 .. 2 : text_content(Selected[i]) = ""
    /\ result.content = List(<<Str(""), Str("")>>) /\ result.matched

\* C9 (as stated): every output emitted after the fetch contains the
\* measured elapsed value.
C9_Original ==
    \A i \in 1 .. Len(out) :
        "elapsed" \in out[i].keys /\ out[i].elapsed = elapsed

\* C9 (amended): the 304 exit, the transport-failure output and the
\* HTTP-failure output contain the measured elapsed value; the result record
\* of a successful run does not contain elapsed.
C9_ElapsedOnlyInEarlyExits ==
    \A i \in 1 .. Len(out) :
        IF IsResultRecord(out[i])
        THEN "elapsed" \notin out[i].keys
        ELSE "elapsed" \in out[i].keys /\ out[i].elapsed = elapsed

C9_Witness ==
    /\ pc = "exited" /\ elapsed = 1 /\ Len(out) = 1
    /\ IsResultRecord(out[1]) /\ "elapsed" \notin out[1].keys

\* the terminal outcomes of the run so far: outputs emitted plus the
\* uncaught exception, if any
Terminals == Len(out) + (IF exc # "" THEN 1 ELSE 0)

\* C10: a run makes at most one request and has at most one terminal
\* outcome; once ended it has made exactly one request and has exactly one
\* outcome; after an exit inside _get_content no later statement has run.
C10_OneRequestOneOutcome ==
    /\ requests <= 1
    /\ Terminals <= 1
    /\ Finished => requests = 1 /\ Terminals = 1
    /\ pc # "fetch_url" => requests = 1
    /\ \A i \in 1 .. Len(out) : ~IsResultRecord(out[i]) => steps = {} /\ pc = "exited"

C10_Witness ==
    /\ pc = "exited" /\ status = 404 /\ requests = 1 /\ Terminals = 1
    /\ out[1].fn = "fail_json" /\ steps = {}

====
